---- MODULE Spec2Model ----
(***************************************************************************)
(* AuthenticationMiddleware (src/src/AuthenticationMiddleware.ts): a bot   *)
(* middleware that gates chat turns behind an OAuth2 login.  The HTTP      *)
(* callback exchanges the authorization code for a token and mints a magic *)
(* code; the turn handler compares the next unauthenticated message with   *)
(* it.  Every await of the source is a point where other turns and other   *)
(* HTTP requests may run, so each handler is cut into its synchronous      *)
(* segments, one action per segment.                                       *)
(***************************************************************************)
EXTENDS Integers, Sequences, FiniteSets, TLC

VARIABLES authenticationConfig, authenticated, magicCode, currentAccessToken,
          sentCode, turns, requests, livePending

vars == <<authenticationConfig, authenticated, magicCode, currentAccessToken,
          sentCode, turns, requests, livePending>>

(* Bound of the model: the chat activities and HTTP requests received. *)
MaxEvents == 3

(***************************************************************************)
(* JavaScript values: a field that the constructor never assigns is        *)
(* undefined, which is not the empty string and not false.                 *)
(***************************************************************************)
Undefined == [t |-> "undefined"]
Str(s) == [t |-> "string", v |-> s]
Bool(b) == [t |-> "boolean", v |-> b]

(* JavaScript truthiness of the values above (the `if (x)` and `!x` tests). *)
Truthy(x) ==
    CASE x.t = "undefined" -> FALSE
      [] x.t = "boolean" -> x.v
      [] x.t = "string" -> x.v # ""
      [] OTHER -> TRUE

(***************************************************************************)
(* String functions of the JavaScript runtime, computed character by       *)
(* character.                                                              *)
(***************************************************************************)
UpperLetters == "ABCDEFGHIJKLMNOPQRSTUVWXYZ"
LowerLetters == "abcdefghijklmnopqrstuvwxyz"

CharAt(s, i) == SubSeq(s, i, i)

IndexIn(s, c) ==
    IF \E i \in 1..Len(s) : CharAt(s, i) = c
    THEN CHOOSE i \in 1..Len(s) : CharAt(s, i) = c
    ELSE 0

LowerChar(c) ==
    IF IndexIn(UpperLetters, c) = 0 THEN c
    ELSE CharAt(LowerLetters, IndexIn(UpperLetters, c))

RECURSIVE ToLowerCase(_)
ToLowerCase(s) ==
    IF Len(s) = 0 THEN ""
    ELSE LowerChar(CharAt(s, 1)) \o ToLowerCase(SubSeq(s, 2, Len(s)))

(* s.slice(n) for n >= 0. *)
Slice(s, n) == SubSeq(s, n + 1, Len(s))

(* s.split(sep) for a one-character separator: the segments between the    *)
(* separators, an empty string giving one empty segment.                    *)
RECURSIVE SplitFrom(_, _, _)
SplitFrom(s, sep, cur) ==
    IF Len(s) = 0 THEN <<cur>>
    ELSE IF CharAt(s, 1) = sep
         THEN <<cur>> \o SplitFrom(SubSeq(s, 2, Len(s)), sep, "")
         ELSE SplitFrom(SubSeq(s, 2, Len(s)), sep, cur \o CharAt(s, 1))

Split(s, sep) == SplitFrom(s, sep, "")

HexDigits == "0123456789abcdef"

(* Buffer.toString('hex'): two lower-case hexadecimal digits per byte. *)
RECURSIVE ToHex(_)
ToHex(bytes) ==
    IF bytes = <<>> THEN ""
    ELSE CharAt(HexDigits, (Head(bytes) \div 16) + 1)
         \o CharAt(HexDigits, (Head(bytes) % 16) + 1)
         \o ToHex(Tail(bytes))

(* Value of a hexadecimal digit of either case, -1 for any other character. *)
HexValue(c) == IndexIn(HexDigits, LowerChar(c)) - 1

(* The printable ASCII characters: codes 32..95, then codes 97..126.  The   *)
(* grave accent, code 96, cannot be written in a string of this language;   *)
(* no input of the model holds %60, which is left undecoded here.           *)
AsciiLow == " !\"#$%&'()*+,-./0123456789:;<=>?@ABCDEFGHIJKLMNOPQRSTUVWXYZ[\\]^_"
AsciiHigh == "abcdefghijklmnopqrstuvwxyz{|}~"

FromCharCode(code) ==
    IF code < 96 THEN CharAt(AsciiLow, code - 31)
    ELSE IF code = 96 THEN "%60"
    ELSE CharAt(AsciiHigh, code - 96)

(***************************************************************************)
(* decodeURIComponent on printable ASCII: %XY becomes the character with   *)
(* code XY, and a % that two hexadecimal digits do not follow, or a lone   *)
(* byte that is no printable ASCII character, raises URIError (threw).     *)
(***************************************************************************)
RECURSIVE DecodeURIComponent(_)
DecodeURIComponent(s) ==
    IF Len(s) = 0 THEN [threw |-> FALSE, v |-> ""]
    ELSE IF CharAt(s, 1) # "%"
    THEN LET rest == DecodeURIComponent(SubSeq(s, 2, Len(s)))
         IN  [threw |-> rest.threw, v |-> CharAt(s, 1) \o rest.v]
    ELSE IF Len(s) < 3 \/ HexValue(CharAt(s, 2)) < 0 \/ HexValue(CharAt(s, 3)) < 0
    THEN [threw |-> TRUE, v |-> ""]
    ELSE LET code == 16 * HexValue(CharAt(s, 2)) + HexValue(CharAt(s, 3))
             rest == DecodeURIComponent(SubSeq(s, 4, Len(s)))
         IN  IF code < 32 \/ code > 126
             THEN [threw |-> TRUE, v |-> ""]
             ELSE [threw |-> rest.threw, v |-> FromCharCode(code) \o rest.v]

(***************************************************************************)
(* Configuration and construction.                                         *)
(***************************************************************************)

(* The provider identifiers carried as `state` (enum StrategyType). *)
StrategyType ==
    [ActiveDirectory |-> "ActiveDirectory", Facebook |-> "Facebook", Github |-> "Github"]

knownEndpoints ==
    [facebook |->
        [tokenBaseUrl |-> "https://graph.facebook.com",
         tokenEndpoint |-> "/v3.0/oauth/access_token",
         authorizationBaseUrl |-> "https://www.facebook.com",
         authorizationEndpoint |-> "/v3.0/dialog/oauth"],
     activeDirectory |->
        [tokenBaseUrl |-> "https://login.microsoftonline.com",
         tokenEndpoint |-> "/common/oauth2/v2.0/token",
         authorizationBaseUrl |-> "https://login.microsoftonline.com",
         authorizationEndpoint |-> "/common/oauth2/v2.0/authorize"],
     github |->
        [tokenBaseUrl |-> "https://github.com",
         tokenEndpoint |-> "/login/oauth/access_token",
         authorizationBaseUrl |-> "https://github.com",
         authorizationEndpoint |-> "/login/oauth/authorize"]]

callbackURL == "http://localhost:3978/auth/callback"

(* A provider's section of the configuration; scopes and buttonText are     *)
(* optional.                                                                *)
ProviderConfig(id, scopes, buttonText) ==
    [t |-> "object", clientId |-> id, clientSecret |-> id \o "-secret",
     scopes |-> scopes, buttonText |-> buttonText]

(* The configurations the middleware is constructed with. *)
Configs ==
    {[facebook |-> ProviderConfig("fb", Undefined, Undefined),
      activeDirectory |-> Undefined,
      github |-> ProviderConfig("gh", Undefined, Str("GitHub login")),
      noUserFoundMessage |-> Str("Please log in")],
     [facebook |-> Undefined,
      activeDirectory |-> ProviderConfig("ad", [t |-> "array", v |-> <<"openid">>], Undefined),
      github |-> Undefined,
      noUserFoundMessage |-> Undefined]}

(* Every choice of providers, with and without a notice. *)
AllConfigs ==
    {[facebook |-> f, activeDirectory |-> a, github |-> g, noUserFoundMessage |-> n] :
        f \in {Undefined, ProviderConfig("fb", Undefined, Undefined)},
        a \in {Undefined, ProviderConfig("ad", [t |-> "array", v |-> <<"openid">>], Undefined)},
        g \in {Undefined, ProviderConfig("gh", Undefined, Str("GitHub login"))},
        n \in {Undefined, Str("Please log in")}}

(* simple-oauth2's create: the client keeps its options. *)
CreateOAuth(moduleOptions) == [t |-> "object", options |-> moduleOptions]

ProviderCredentials(provider, endpoints) ==
    [client |-> [id |-> provider.clientId, secret |-> provider.clientSecret],
     auth |-> [authorizeHost |-> endpoints.authorizationBaseUrl,
               authorizePath |-> endpoints.authorizationEndpoint,
               tokenHost |-> endpoints.tokenBaseUrl,
               tokenPath |-> endpoints.tokenEndpoint]]

CreateOAuthClients(config) ==
    LET initializationModule ==
            [client |-> [id |-> "", secret |-> ""],
             auth |-> [tokenHost |-> knownEndpoints.activeDirectory.tokenBaseUrl]]
        ClientOf(provider, endpoints) ==
            IF Truthy(provider)
            THEN CreateOAuth(ProviderCredentials(provider, endpoints))
            ELSE CreateOAuth(initializationModule)
    IN  [facebookOAuthClient |-> ClientOf(config.facebook, knownEndpoints.facebook),
         activeDirectoryOAuthClient |->
             ClientOf(config.activeDirectory, knownEndpoints.activeDirectory),
         githubOAuthClient |-> ClientOf(config.github, knownEndpoints.github)]

(* this.oauthClients: assigned by the constructor and never again. *)
oauthClients == CreateOAuthClients(authenticationConfig)

(* simple-oauth2's authorizeURL: the URL, kept as its parts. *)
AuthorizeURL(client, params) ==
    [client_id |-> client.options.client.id,
     redirect_uri |-> params.redirect_uri,
     scope |-> params.scope,
     state |-> params.state]

(* Variant of CardActionOf: every action carries the directory's state. *)
CardActionOfDirectory(client, provider, defaultScopes, strategy, defaultTitle) ==
    [type |-> "openUrl",
     value |-> AuthorizeURL(client,
                   [redirect_uri |-> callbackURL,
                    scope |-> IF Truthy(provider.scopes)
                              THEN provider.scopes.v ELSE defaultScopes,
                    state |-> StrategyType.ActiveDirectory]),
     title |-> IF Truthy(provider.buttonText)
               THEN provider.buttonText.v ELSE defaultTitle]

CardActionOf(client, provider, defaultScopes, strategy, defaultTitle) ==
    [type |-> "openUrl",
     value |-> AuthorizeURL(client,
                   [redirect_uri |-> callbackURL,
                    scope |-> IF Truthy(provider.scopes)
                              THEN provider.scopes.v ELSE defaultScopes,
                    state |-> strategy]),
     title |-> IF Truthy(provider.buttonText)
               THEN provider.buttonText.v ELSE defaultTitle]

createAuthenticationCard ==
    LET config == authenticationConfig
        facebookActions ==
            IF Truthy(config.facebook)
            THEN <<CardActionOf(oauthClients.facebookOAuthClient, config.facebook,
                                <<"public_profile">>, StrategyType.Facebook,
                                "Log in with Facebook")>>
            ELSE <<>>
        activeDirectoryActions ==
            IF Truthy(config.activeDirectory)
            THEN <<CardActionOf(oauthClients.activeDirectoryOAuthClient,
                                config.activeDirectory, <<"User.Read">>,
                                StrategyType.ActiveDirectory, "Log in with Microsoft")>>
            ELSE <<>>
        githubActions ==
            IF Truthy(config.github)
            THEN <<CardActionOf(oauthClients.githubOAuthClient, config.github,
                                <<"user">>, StrategyType.Github, "Log in with GitHub")>>
            ELSE <<>>
        cardActions == facebookActions \o activeDirectoryActions \o githubActions
    IN  [t |-> "card", buttons |-> cardActions]

(***************************************************************************)
(* State.  turns and requests hold one record per chat turn and per HTTP   *)
(* request received so far, with the position each has reached (pc) and    *)
(* what it has done.  livePending is the number of the request whose       *)
(* pending authentication the three fields currently hold, 0 when they     *)
(* hold none: it names the record, the code does not read it.              *)
(***************************************************************************)
Init ==
    /\ authenticationConfig \in Configs
    /\ authenticated = Bool(FALSE)
    /\ magicCode = Undefined
    /\ currentAccessToken = Undefined
    /\ sentCode = Undefined
    /\ turns = <<>>
    /\ requests = <<>>
    /\ livePending = 0

(***************************************************************************)
(* Inputs.                                                                 *)
(***************************************************************************)

(* activity.type of an incoming activity. *)
ActivityTypes == {"message", "typing"}

(* activity.text of an incoming message, which Activity declares a string. *)
Texts == {"A1B2C3D4", "a1b2c3d5", ""}

(* activity.conversation.id of an incoming activity: the chat session. *)
Conversations == {"conversation-1", "conversation-2"}

(* The values randomBytes(4) may return. *)
RandomBytes == {<<161, 178, 195, 212>>, <<11, 173, 192, 222>>}

(* The redirects the endpoint may receive: the raw query string and the     *)
(* state value the sender put in it (Undefined: no state parameter).        *)
AllRedirects ==
    {[query |-> "code=abc&state=Github", state |-> Str("Github")],
     [query |-> "code=abc&state=Facebook", state |-> Str("Facebook")],
     [query |-> "code=abc&state=Active%44irectory", state |-> Str("ActiveDirectory")],
     [query |-> "code=abc&state=Twitter", state |-> Str("Twitter")],
     [query |-> "code=abc&state=", state |-> Str("")],
     [query |-> "code=abc", state |-> Undefined]}

(* The redirects received while chat turns run: the ones a card of Configs *)
(* leads to, and one without state.                                        *)
Redirects == {redirect \in AllRedirects : redirect.state \in {Str("Github"), Undefined}}

(***************************************************************************)
(* The turn handler, onTurn and handleMagicCode.                           *)
(***************************************************************************)

(* The record of a turn that has just been received.  conversation is the *)
(* session of the context, which sendActivity and onLoginSuccess are given *)
(* and onTurn never reads; auth is the answer                              *)
(* of userIsAuthenticated, "unasked" while it has not been called;         *)
(* submittedCode the local of handleMagicCode, read from activity.text;    *)
(* sent the activities passed to context.sendActivity; nextCalls the calls *)
(* of next(); login the tokens passed to onLoginSuccess.  found, compared  *)
(* and cleared name the pending authentication that was live when the      *)
(* unauthenticated branch was entered, the one the text was compared with  *)
(* and the one the reset discarded (-1: branch not entered, no comparison, *)
(* no reset; 0: none was live).                                            *)
NewTurn(type, conversation) ==
    [type |-> type, conversation |-> conversation, pc |-> "start", auth |-> "unasked", submittedCode |-> Undefined,
     sent |-> <<>>, nextCalls |-> 0, login |-> <<>>,
     found |-> -1, compared |-> -1, cleared |-> -1]

(* Variant of ResetProperties: the reset that forgets sentCode. *)
ResetWithoutSentCode ==
    /\ magicCode' = Str("")
    /\ sentCode' = sentCode
    /\ currentAccessToken' = Undefined
    /\ livePending' = 0

(* The three assignments under "reset necessary properties". *)
ResetProperties ==
    /\ magicCode' = Str("")
    /\ sentCode' = Bool(FALSE)
    /\ currentAccessToken' = Undefined
    /\ livePending' = 0

(* Variant of MagicCodeMatches: the comparison without toLowerCase. *)
MagicCodeMatchesExact(submittedCode, code) == submittedCode = code

(* submittedCode.toLowerCase() === this.magicCode.toLowerCase() *)
MagicCodeMatches(submittedCode, code) == ToLowerCase(submittedCode) = ToLowerCase(code)

(* Variant of PassOn: the turn ends without the call of next(). *)
PassOnDropped(turn) ==
    /\ turns' = Append(turns, [turn EXCEPT !.pc = "done"])
    /\ UNCHANGED <<magicCode, currentAccessToken, sentCode, livePending>>

(* Variant of PassOn: a turn passed through abandons the pending login. *)
PassOnResets(turn) ==
    /\ turns' = Append(turns, [turn EXCEPT !.nextCalls = @ + 1, !.pc = "next"])
    /\ magicCode' = Str("")
    /\ sentCode' = Bool(FALSE)
    /\ currentAccessToken' = Undefined
    /\ livePending' = 0

(* await next(): the turn is handed to the rest of the pipeline. *)
PassOn(turn) ==
    /\ turns' = Append(turns, [turn EXCEPT !.nextCalls = @ + 1, !.pc = "next"])
    /\ UNCHANGED <<magicCode, currentAccessToken, sentCode, livePending>>

(* Variant of ShowLogin: the branch that also sets sentCode. *)
ShowLoginSetsSentCode(turn) ==
    /\ turns' = Append(turns,
           IF Truthy(authenticationConfig.noUserFoundMessage)
           THEN [turn EXCEPT !.sent = Append(@, authenticationConfig.noUserFoundMessage),
                             !.pc = "notice"]
           ELSE [turn EXCEPT !.sent = Append(@, createAuthenticationCard),
                             !.pc = "card"])
    /\ sentCode' = Bool(TRUE)
    /\ UNCHANGED <<magicCode, currentAccessToken, livePending>>

(* The branch !this.sentCode: the optional notice, then the card. *)
ShowLogin(turn) ==
    /\ turns' = Append(turns,
           IF Truthy(authenticationConfig.noUserFoundMessage)
           THEN [turn EXCEPT !.sent = Append(@, authenticationConfig.noUserFoundMessage),
                             !.pc = "notice"]
           ELSE [turn EXCEPT !.sent = Append(@, createAuthenticationCard),
                             !.pc = "card"])
    /\ UNCHANGED <<magicCode, currentAccessToken, sentCode, livePending>>

(* handleMagicCode up to its first await.  A magicCode that is no string   *)
(* has no toLowerCase: the call throws TypeError.                          *)
HandleMagicCode(turn, text) ==
    IF magicCode.t # "string"
    THEN /\ turns' = Append(turns, [turn EXCEPT !.submittedCode = Str(text),
                                                !.pc = "threw"])
         /\ UNCHANGED <<magicCode, currentAccessToken, sentCode, livePending>>
    ELSE IF MagicCodeMatches(text, magicCode.v)
    THEN /\ turns' = Append(turns,
                [turn EXCEPT !.submittedCode = Str(text),
                             !.login = Append(@, currentAccessToken),
                             !.compared = livePending,
                             !.pc = "login"])
         /\ UNCHANGED <<magicCode, currentAccessToken, sentCode, livePending>>
    ELSE /\ ResetProperties
         /\ turns' = Append(turns,
                [turn EXCEPT !.submittedCode = Str(text),
                             !.compared = livePending,
                             !.cleared = livePending,
                             !.sent = Append(@, Str("Authentication Failure")),
                             !.pc = "failure"])

(* Variant of RunAuth: the pending login is kept per conversation, a       *)
(* message is taken for a code only in a conversation that was shown the   *)
(* Login Card.                                                             *)
RunAuthPerSession(turn, text) ==
    IF /\ Truthy(sentCode)
       /\ \E t \in 1..Len(turns) :
              /\ turns[t].conversation = turn.conversation
              /\ turns[t].auth = "no" /\ turns[t].submittedCode = Undefined
    THEN HandleMagicCode(turn, text)
    ELSE ShowLogin(turn)

(* Variant of RunAuth: every unauthenticated message is taken for a code. *)
RunAuthAlwaysCode(turn, text) == HandleMagicCode(turn, text)

(* Variant of RunAuth: the branch falls through to next(). *)
RunAuthThenNext(turn, text) ==
    IF ~Truthy(sentCode)
    THEN ShowLogin([turn EXCEPT !.nextCalls = @ + 1])
    ELSE HandleMagicCode([turn EXCEPT !.nextCalls = @ + 1], text)

(* The branch of a message whose user is not authenticated. *)
RunAuth(turn, text) ==
    IF ~Truthy(sentCode) THEN ShowLogin(turn) ELSE HandleMagicCode(turn, text)

(* onTurn up to its first await. *)
OnTurn(type, text, conversation) ==
    /\ Len(turns) + Len(requests) < MaxEvents
    /\ IF type = "message"
       THEN \E userIsAuthenticated \in BOOLEAN :
                IF ~userIsAuthenticated
                THEN RunAuth([NewTurn(type, conversation) EXCEPT
                                  !.auth = "no", !.found = livePending], text)
                ELSE PassOn([NewTurn(type, conversation) EXCEPT !.auth = "yes"])
       ELSE PassOn(NewTurn(type, conversation))
    /\ UNCHANGED <<authenticationConfig, authenticated, requests>>

(* next() returns and onTurn ends. *)
NextReturns(t) ==
    /\ turns[t].pc = "next"
    /\ turns' = [turns EXCEPT ![t].pc = "done"]
    /\ UNCHANGED <<authenticationConfig, authenticated, magicCode,
                   currentAccessToken, sentCode, requests, livePending>>

(* Variant of NoticeSent: the turn ends after the notice, no card is sent. *)
NoticeSentNoCard(t) ==
    /\ turns[t].pc = "notice"
    /\ turns' = [turns EXCEPT ![t].pc = "card"]
    /\ UNCHANGED <<authenticationConfig, authenticated, magicCode,
                   currentAccessToken, sentCode, requests, livePending>>

(* The notice has been sent: the card is sent next. *)
NoticeSent(t) ==
    /\ turns[t].pc = "notice"
    /\ turns' = [turns EXCEPT ![t].sent = Append(@, createAuthenticationCard),
                              ![t].pc = "card"]
    /\ UNCHANGED <<authenticationConfig, authenticated, magicCode,
                   currentAccessToken, sentCode, requests, livePending>>

(* The last sendActivity of the turn returns and onTurn ends. *)
ReplySent(t) ==
    /\ turns[t].pc \in {"card", "success", "failure"}
    /\ turns' = [turns EXCEPT ![t].pc = "done"]
    /\ UNCHANGED <<authenticationConfig, authenticated, magicCode,
                   currentAccessToken, sentCode, requests, livePending>>

(* Variant of OnLoginSuccessReturns: the success notice without the reset. *)
OnLoginSuccessReturnsKeeps(t) ==
    /\ turns[t].pc = "login"
    /\ turns' = [turns EXCEPT ![t].sent = Append(@, Str("Authentication Success")),
                              ![t].pc = "success"]
    /\ UNCHANGED <<authenticationConfig, authenticated, magicCode,
                   currentAccessToken, sentCode, requests, livePending>>

(* onLoginSuccess returns: the reset and the success notice. *)
OnLoginSuccessReturns(t) ==
    /\ turns[t].pc = "login"
    /\ ResetProperties
    /\ turns' = [turns EXCEPT ![t].cleared = livePending,
                              ![t].sent = Append(@, Str("Authentication Success")),
                              ![t].pc = "success"]
    /\ UNCHANGED <<authenticationConfig, authenticated, requests>>

(* Variant of OnLoginSuccessThrows: the reset runs although the call       *)
(* failed, as in a finally block.                                          *)
OnLoginSuccessThrowsResets(t) ==
    /\ turns[t].pc = "login"
    /\ ResetProperties
    /\ turns' = [turns EXCEPT ![t].cleared = livePending, ![t].pc = "threw"]
    /\ UNCHANGED <<authenticationConfig, authenticated, requests>>

(* onLoginSuccess throws or rejects: the await rethrows, nothing after it  *)
(* runs and onTurn rejects.                                                *)
OnLoginSuccessThrows(t) ==
    /\ turns[t].pc = "login"
    /\ turns' = [turns EXCEPT ![t].pc = "threw"]
    /\ UNCHANGED <<authenticationConfig, authenticated, magicCode,
                   currentAccessToken, sentCode, requests, livePending>>

(***************************************************************************)
(* The redirect endpoint, GET /auth/callback.                               *)
(***************************************************************************)

(* The switch on state: the field of this.oauthClients it selects. *)
SelectOAuthClient(state) ==
    CASE state = StrategyType.ActiveDirectory -> "activeDirectoryOAuthClient"
      [] state = StrategyType.Facebook -> "facebookOAuthClient"
      [] state = StrategyType.Github -> "githubOAuthClient"
      [] OTHER -> "activeDirectoryOAuthClient"

(* The record of a request: client is the selected field of oauthClients  *)
(* ("none" before the switch is reached), error the exception the handler  *)
(* let escape, minted the magic code and token the request stored, and     *)
(* response what res.send was given.                                       *)
NewRequest(query) ==
    [query |-> query, pc |-> "start", client |-> "none", tokenConfig |-> Undefined,
     error |-> "none", minted |-> Undefined, token |-> Undefined,
     response |-> Undefined]

(* The handler up to the call of getToken.  split("&")[1] is undefined     *)
(* when the query has a single segment, and undefined has no slice: the    *)
(* handler throws TypeError; decodeURIComponent throws URIError.           *)
ParseRedirect(query) ==
    LET segments == Split(query, "&")
        code == Slice(segments[1], 5)
        decoded == DecodeURIComponent(Slice(segments[2], 6))
    IN  IF Len(segments) < 2
        THEN [NewRequest(query) EXCEPT !.pc = "threw", !.error = "TypeError"]
        ELSE IF decoded.threw
        THEN [NewRequest(query) EXCEPT !.pc = "threw", !.error = "URIError"]
        ELSE [NewRequest(query) EXCEPT
                 !.pc = "exchange",
                 !.client = SelectOAuthClient(decoded.v),
                 !.tokenConfig = [t |-> "object", code |-> code,
                                  redirect_uri |-> callbackURL]]

AuthCallback(query) ==
    /\ Len(turns) + Len(requests) < MaxEvents
    /\ requests' = Append(requests, ParseRedirect(query))
    /\ UNCHANGED <<authenticationConfig, authenticated, magicCode,
                   currentAccessToken, sentCode, turns, livePending>>

(* accessToken.create(result): the token of the exchange request r made    *)
(* through its client.                                                     *)
CreateAccessToken(r) ==
    [t |-> "object", client |-> oauthClients[requests[r].client], grant |-> r]

(* Variant of StorePending: sentCode is set, the code and the token are    *)
(* left for later.                                                         *)
StorePendingSentCodeOnly(accessToken, code) ==
    /\ sentCode' = Bool(TRUE)
    /\ UNCHANGED <<magicCode, currentAccessToken>>

(* Variant of StorePending: a magic code already stored is not replaced. *)
StorePendingKeepsCode(accessToken, code) ==
    /\ currentAccessToken' = accessToken
    /\ magicCode' = IF Truthy(magicCode) THEN magicCode ELSE Str(code)
    /\ sentCode' = Bool(TRUE)

(* Variant of StorePending: a token already stored is not replaced. *)
StorePendingKeepsToken(accessToken, code) ==
    /\ currentAccessToken' = IF currentAccessToken = Undefined
                             THEN accessToken ELSE currentAccessToken
    /\ magicCode' = Str(code)
    /\ sentCode' = Bool(TRUE)

(* The assignments of the then callback. *)
StorePending(accessToken, code) ==
    /\ currentAccessToken' = accessToken
    /\ magicCode' = Str(code)
    /\ sentCode' = Bool(TRUE)

(* getToken resolves: the token and a fresh magic code are stored and the  *)
(* code is sent in the response.                                           *)
GetTokenResolves(r, bytes) ==
    /\ requests[r].pc = "exchange"
    /\ LET accessToken == CreateAccessToken(r)
           code == ToHex(bytes)
       IN  /\ StorePending(accessToken, code)
           /\ livePending' = r
           /\ requests' = [requests EXCEPT
                  ![r].pc = "done",
                  ![r].minted = Str(code),
                  ![r].token = accessToken,
                  ![r].response = Str("Please enter the code into the bot: " \o code)]
    /\ UNCHANGED <<authenticationConfig, authenticated, turns>>

(* Variant of KeepPending: a failed exchange that discards the pending      *)
(* authentication.                                                         *)
DropPending ==
    /\ magicCode' = Str("")
    /\ sentCode' = Bool(FALSE)
    /\ currentAccessToken' = Undefined
    /\ livePending' = 0

(* The three fields after getToken rejected: the catch callback only logs. *)
KeepPending ==
    UNCHANGED <<magicCode, currentAccessToken, sentCode, livePending>>

(* getToken rejects: the error is logged. *)
GetTokenRejects(r) ==
    /\ requests[r].pc = "exchange"
    /\ KeepPending
    /\ requests' = [requests EXCEPT ![r].pc = "failed"]
    /\ UNCHANGED <<authenticationConfig, authenticated, turns>>

Next ==
    \/ \E type \in ActivityTypes :
           \E text \in (IF type = "message" THEN Texts ELSE {""}) :
               \E conversation \in Conversations : OnTurn(type, text, conversation)
    \/ \E t \in 1..Len(turns) : NextReturns(t)
    \/ \E t \in 1..Len(turns) : NoticeSent(t)
    \/ \E t \in 1..Len(turns) : ReplySent(t)
    \/ \E t \in 1..Len(turns) : OnLoginSuccessReturns(t)
    \/ \E t \in 1..Len(turns) : OnLoginSuccessThrows(t)
    \/ \E redirect \in Redirects : AuthCallback(redirect.query)
    \/ \E r \in 1..Len(requests) : \E bytes \in RandomBytes : GetTokenResolves(r, bytes)
    \/ \E r \in 1..Len(requests) : GetTokenRejects(r)

Spec == Init /\ [][Next]_vars

(* The endpoint alone, under every redirect. *)
NextRedirect ==
    \/ \E redirect \in AllRedirects : AuthCallback(redirect.query)
    \/ \E r \in 1..Len(requests) : \E bytes \in RandomBytes : GetTokenResolves(r, bytes)
    \/ \E r \in 1..Len(requests) : GetTokenRejects(r)

SpecRedirect == Init /\ [][NextRedirect]_vars

(* The turn handler alone, before any callback, under every configuration. *)
InitCard ==
    /\ authenticationConfig \in AllConfigs
    /\ authenticated = Bool(FALSE)
    /\ magicCode = Undefined
    /\ currentAccessToken = Undefined
    /\ sentCode = Undefined
    /\ turns = <<>>
    /\ requests = <<>>
    /\ livePending = 0

NextCard ==
    \/ \E type \in ActivityTypes :
           \E text \in (IF type = "message" THEN Texts ELSE {""}) :
               \E conversation \in Conversations : OnTurn(type, text, conversation)
    \/ \E t \in 1..Len(turns) : NextReturns(t)
    \/ \E t \in 1..Len(turns) : NoticeSent(t)
    \/ \E t \in 1..Len(turns) : ReplySent(t)

SpecCard == InitCard /\ [][NextCard]_vars

(***************************************************************************)
(* Properties.  The helpers below read the records of the turns and of    *)
(* the requests.                                                           *)
(***************************************************************************)
TurnIds == 1..Len(turns)
RequestIds == 1..Len(requests)

SuccessNotice == Str("Authentication Success")
FailureNotice == Str("Authentication Failure")

(* The three fields hold no pending authentication. *)
PendingCleared(code, token, sent) ==
    code = Str("") /\ token = Undefined /\ sent = Bool(FALSE)

(* Turn t compared its text with the pending authentication of a request. *)
IsSubmission(t) == turns[t].compared >= 1

(* The magic code and the token that the request of pending p stored. *)
CodeOf(p) == requests[p].minted.v
TokenOf(p) == requests[p].token

(* The text of submission t equals the code it was compared with, case    *)
(* ignored.                                                                *)
TextEqualsCode(t) ==
    ToLowerCase(turns[t].submittedCode.v) = ToLowerCase(CodeOf(turns[t].compared))

(* Turn t is an unauthenticated message that was answered as a first      *)
(* contact: handleMagicCode was not entered.                               *)
FirstContact(t) == turns[t].auth = "no" /\ turns[t].submittedCode = Undefined

(* The step is the continuation of turn t after onLoginSuccess returned. *)
LoginReturned(t) ==
    t \in TurnIds /\ turns[t].pc = "login" /\ turns'[t].pc = "success"

(* The step is the arrival of a turn, whose record is the last of turns'. *)
TurnArrives == Len(turns') = Len(turns) + 1

Arrived == turns'[Len(turns')]

C1_MatchState ==
    \A t \in TurnIds :
        /\ (turns[t].auth = "no" /\ turns[t].found >= 1)
           => turns[t].compared = turns[t].found
        /\ (IsSubmission(t) /\ TextEqualsCode(t))
           => /\ turns[t].login = <<TokenOf(turns[t].compared)>>
              /\ turns[t].pc \in {"login", "success", "done", "threw"}
              /\ turns[t].pc \in {"success", "done"}
                 => turns[t].sent = <<SuccessNotice>> /\ turns[t].cleared # -1
              /\ turns[t].pc \in {"login", "threw"}
                 => turns[t].sent = <<>> /\ turns[t].cleared = -1

C1_MatchStep ==
    \A t \in 1..MaxEvents :
        LoginReturned(t) => PendingCleared(magicCode', currentAccessToken', sentCode')

MismatchArrives == TurnArrives /\ Arrived.pc = "failure"

(* C2: a submission whose text differs from the live magic code, case      *)
(* ignored, makes no onLoginSuccess call, sends the failure notice and     *)
(* discards the pending authentication (the three fields are reset in the  *)
(* step that compares); no later turn succeeds against the pending         *)
(* authentication an earlier mismatch discarded.                           *)
C2_MismatchState ==
    \A t \in TurnIds :
        /\ (IsSubmission(t) /\ ~TextEqualsCode(t))
           => /\ turns[t].login = <<>>
              /\ turns[t].sent = <<FailureNotice>>
              /\ turns[t].cleared = turns[t].compared
              /\ turns[t].pc \in {"failure", "done"}
        /\ \A u \in TurnIds :
               (u < t /\ IsSubmission(u) /\ ~TextEqualsCode(u))
               => ~(turns[t].login # <<>> /\ turns[t].compared = turns[u].compared)

C2_MismatchStep ==
    MismatchArrives => PendingCleared(magicCode', currentAccessToken', sentCode')

C2_MismatchFailsClosed == []C2_MismatchState /\ [][C2_MismatchStep]_vars

(* C2 witness: after a mismatch discarded a pending authentication, the    *)
(* text that equals its code was submitted and answered with the Login     *)
(* Card.                                                                   *)
C2_Witness ==
    \E t, u \in TurnIds :
        /\ t < u
        /\ IsSubmission(t) /\ ~TextEqualsCode(t) /\ turns[t].pc = "done"
        /\ FirstContact(u) /\ turns[u].pc = "done"
        /\ ToLowerCase("A1B2C3D4") = ToLowerCase(CodeOf(turns[t].compared))

(* C3: onLoginSuccess is invoked at most once for each pending             *)
(* authentication.                                                         *)
C3_OncePerPending ==
    \A p \in RequestIds :
        Cardinality({t \in TurnIds : turns[t].login # <<>> /\ turns[t].compared = p}) <= 1

(* C4: the reset of a turn discards no pending authentication other than   *)
(* the one the turn's text was compared with.                              *)
C4_ClearsOnlyCompared ==
    \A t \in TurnIds : turns[t].cleared >= 1 => turns[t].cleared = turns[t].compared

(* C5: a message whose user is not authenticated is never passed to        *)
(* next().                                                                 *)
C5_UnauthenticatedNeverForwarded ==
    \A t \in TurnIds : turns[t].auth = "no" => turns[t].nextCalls = 0

(* C5 witness: unauthenticated turns have ended on each path: Login Card,  *)
(* or a submission answered with a notice.                                 *)
C5_Witness ==
    \E t, u \in TurnIds :
        /\ FirstContact(t) /\ turns[t].pc = "done"
        /\ IsSubmission(u) /\ turns[u].pc = "done"

(* Turn t is passed through: no message, or a message of an authenticated  *)
(* user.                                                                   *)
PassedThrough(t) == turns[t].type # "message" \/ turns[t].auth = "yes"

(* C6: a turn that is passed through calls next() exactly once, sends      *)
(* nothing, makes no onLoginSuccess call, and none of its steps changes    *)
(* sentCode, magicCode or the access token.                                *)
C6_PassState ==
    \A t \in TurnIds :
        PassedThrough(t)
        => /\ turns[t].nextCalls = 1
           /\ turns[t].sent = <<>>
           /\ turns[t].login = <<>>
           /\ turns[t].pc \in {"next", "done"}

C6_PassStep ==
    (\/ TurnArrives /\ (Arrived.type # "message" \/ Arrived.auth = "yes")
     \/ \E t \in TurnIds : PassedThrough(t) /\ turns'[t] # turns[t])
    => UNCHANGED <<sentCode, magicCode, currentAccessToken>>

C6_PassThrough == []C6_PassState /\ [][C6_PassStep]_vars

(* C6 witness: a non-message activity and a message of an authenticated    *)
(* user were passed through while a pending authentication was live.       *)
C6_Witness ==
    \E t, u \in TurnIds :
        /\ turns[t].type # "message" /\ turns[t].pc = "done"
        /\ turns[u].auth = "yes" /\ turns[u].pc = "done"
        /\ Truthy(sentCode) /\ livePending >= 1

(* Turns t and u are unauthenticated messages, u the first one received   *)
(* after t.                                                                *)
NextUnauthenticated(t, u) ==
    /\ t < u
    /\ turns[t].auth = "no" /\ turns[u].auth = "no"
    /\ \A m \in TurnIds : (t < m /\ m < u) => turns[m].auth # "no"

(* The Login Card is the last activity turn t sent. *)
CardSentLast(t) ==
    turns[t].sent # <<>> /\ turns[t].sent[Len(turns[t].sent)] = createAuthenticationCard

(* C7 as stated: after an unauthenticated message was answered with the    *)
(* Login Card, the next unauthenticated message is treated as a code       *)
(* submission, not answered with the Login Card again.                     *)
C7_CardThenSubmission ==
    \A t, u \in TurnIds :
        (NextUnauthenticated(t, u) /\ FirstContact(t)) => ~FirstContact(u)

(* C7 amended: an unauthenticated message received while sentCode is not   *)
(* true is answered with the Login Card and leaves sentCode as it is; only *)
(* a successful callback sets sentCode to true, so the next                *)
(* unauthenticated message is a code submission only if a callback stored  *)
(* a pending authentication in between, and gets the Login Card again      *)
(* otherwise.                                                              *)
C7_CardState ==
    \A t \in TurnIds :
        /\ FirstContact(t)
           => /\ turns[t].found = 0
              /\ turns[t].pc \in {"notice", "card", "done"}
              /\ turns[t].pc \in {"card", "done"} => CardSentLast(t)
        /\ \A u \in TurnIds :
               (NextUnauthenticated(t, u) /\ FirstContact(t) /\ ~FirstContact(u))
               => /\ turns[u].found >= 1
                  /\ requests[turns[u].found].pc = "done"

C7_CardStep ==
    /\ (TurnArrives /\ Arrived.auth = "no" /\ Arrived.submittedCode = Undefined)
       => (~Truthy(sentCode) /\ sentCode' = sentCode)
    /\ (~Truthy(sentCode) /\ Truthy(sentCode'))
       => \E r \in RequestIds : requests[r].pc = "exchange" /\ requests'[r].pc = "done"

C7_CardLeavesSentCode == []C7_CardState /\ [][C7_CardStep]_vars

(* C7 witness: two unauthenticated messages in a row were both answered    *)
(* with the Login Card, and sentCode is still not true.                    *)
C7_Witness ==
    \E t, u \in TurnIds :
        /\ NextUnauthenticated(t, u)
        /\ FirstContact(t) /\ turns[t].pc = "done" /\ CardSentLast(t)
        /\ FirstContact(u) /\ turns[u].pc = "done" /\ CardSentLast(u)
        /\ ~Truthy(sentCode)

(* Turn t is an unauthenticated message received while no pending          *)
(* authentication was live.                                                *)
NoPendingFound(t) == turns[t].auth = "no" /\ turns[t].found = 0

(* C8 as stated: an unauthenticated message received while no pending      *)
(* authentication exists is answered as a mismatch: it does not throw,     *)
(* the failure notice is sent and onLoginSuccess is not called.            *)
C8_NoPendingIsMismatch ==
    \A t \in TurnIds :
        (NoPendingFound(t) /\ turns[t].pc \in {"done", "threw"})
        => /\ turns[t].pc = "done"
           /\ turns[t].sent = <<FailureNotice>>
           /\ turns[t].login = <<>>

(* C8 amended: an unauthenticated message received while no pending        *)
(* authentication exists does not throw and is answered as a first         *)
(* contact: the Login Card is sent and no failure notice, onLoginSuccess   *)
(* is not called, handleMagicCode is not entered, and sentCode, which is   *)
(* not true, is left as it is.                                             *)
C8_NoPendingState ==
    \A t \in TurnIds :
        NoPendingFound(t)
        => /\ FirstContact(t)
           /\ turns[t].pc \in {"notice", "card", "done"}
           /\ turns[t].login = <<>>
           /\ \A i \in 1..Len(turns[t].sent) : turns[t].sent[i] # FailureNotice
           /\ turns[t].pc \in {"card", "done"} => CardSentLast(t)
           /\ turns[t].cleared = -1

C8_NoPendingStep ==
    (TurnArrives /\ Arrived.auth = "no" /\ Arrived.found = 0)
    => (~Truthy(sentCode) /\ UNCHANGED <<sentCode, magicCode, currentAccessToken>>)

C8_NoPendingIsFirstContact == []C8_NoPendingState /\ [][C8_NoPendingStep]_vars

(* C8 witness: after a matching submission consumed the pending           *)
(* authentication, the next unauthenticated message found none and was     *)
(* answered with the Login Card.                                           *)
C8_Witness ==
    \E t, u \in TurnIds :
        /\ t < u
        /\ IsSubmission(t) /\ TextEqualsCode(t) /\ turns[t].pc = "done"
        /\ NoPendingFound(u) /\ turns[u].pc = "done" /\ CardSentLast(u)

(* The step is the catch callback of request r. *)
ExchangeFailed(r) ==
    r \in RequestIds /\ requests[r].pc = "exchange" /\ requests'[r].pc = "failed"

(* C9: a callback whose token exchange fails lets no error escape, sends   *)
(* no code and stores nothing: magicCode, the access token and sentCode    *)
(* are the same after it as before.                                        *)
C9_FailedState ==
    \A r \in RequestIds :
        requests[r].pc = "failed"
        => /\ requests[r].error = "none"
           /\ requests[r].minted = Undefined
           /\ requests[r].token = Undefined
           /\ requests[r].response = Undefined
           /\ livePending # r

C9_FailedStep ==
    \A r \in 1..MaxEvents :
        ExchangeFailed(r) => UNCHANGED <<magicCode, currentAccessToken, sentCode>>

C9_FailedExchangeKeepsPending == []C9_FailedState /\ [][C9_FailedStep]_vars

(* C9 witness: the exchange of a callback failed while the pending         *)
(* authentication of an earlier callback was live, and the code issued     *)
(* earlier then matched a submission.                                      *)
C9_Witness ==
    \E r \in RequestIds, t \in TurnIds :
        /\ requests[r].pc = "failed"
        /\ turns[t].compared >= 1 /\ turns[t].compared # r
        /\ turns[t].login # <<>>
        /\ turns[t].pc = "done"

(* The state value the sender of request r put in its query. *)
StateSent(r) ==
    (CHOOSE redirect \in AllRedirects : redirect.query = requests[r].query).state

(* C10: a callback lets no error escape and is routed by its state: to the *)
(* client of the provider the state names, and to the ActiveDirectory      *)
(* client when the state is absent, empty or names no provider.            *)
C10_RoutedByState ==
    \A r \in RequestIds :
        /\ requests[r].error = "none"
        /\ requests[r].client =
               CASE StateSent(r) = Str("Facebook") -> "facebookOAuthClient"
                 [] StateSent(r) = Str("Github") -> "githubOAuthClient"
                 [] OTHER -> "activeDirectoryOAuthClient"

(* The step is the then callback of request r. *)
ExchangeResolved(r) ==
    r \in RequestIds /\ requests[r].pc = "exchange" /\ requests'[r].pc = "done"

(* The requests other than r whose callback has stored a pending           *)
(* authentication.                                                         *)
StoredBefore(r) == {q \in RequestIds : q # r /\ requests[q].pc = "done"}

ResponsePrefix == "Please enter the code into the bot: "

(* C11 as stated: while the pending authentication of a callback is live,  *)
(* the code issued by any other, earlier callback does not match.          *)
C11_EarlierCodeNeverMatches ==
    \A r \in RequestIds :
        livePending = r
        => \A q \in StoredBefore(r) :
               ToLowerCase(CodeOf(q)) # ToLowerCase(magicCode.v)

(* C11 amended: a successful callback overwrites the three fields and      *)
(* responds with the code it stored: right after it the live magic code is *)
(* the code of its response, the live token the token of its exchange and  *)
(* no token of an earlier callback, and the code of an earlier callback    *)
(* matches only if randomBytes returned the same bytes again.              *)
C11_StoreState ==
    \A r \in RequestIds :
        /\ requests[r].pc = "done"
           => /\ requests[r].response = Str(ResponsePrefix \o CodeOf(r))
              /\ TokenOf(r).grant = r
              /\ Len(CodeOf(r)) = 8
        /\ livePending = r
           => /\ magicCode = requests[r].minted
              /\ currentAccessToken = TokenOf(r)
              /\ sentCode = Bool(TRUE)

C11_StoreStep ==
    \A r \in 1..MaxEvents :
        ExchangeResolved(r)
        => /\ requests'[r].response = Str(ResponsePrefix \o magicCode'.v)
           /\ currentAccessToken' = requests'[r].token
           /\ currentAccessToken'.grant = r
           /\ sentCode' = Bool(TRUE)
           /\ \A q \in StoredBefore(r) :
                  /\ currentAccessToken' # TokenOf(q)
                  /\ ToLowerCase(CodeOf(q)) = ToLowerCase(magicCode'.v)
                     => CodeOf(q) = requests'[r].minted.v

C11_CallbackOverwrites == []C11_StoreState /\ [][C11_StoreStep]_vars

(* C11 witness: a second callback replaced the pending authentication of   *)
(* the first with another code and another token.                          *)
C11_Witness ==
    \E q, r \in RequestIds :
        /\ q # r
        /\ requests[q].pc = "done" /\ requests[r].pc = "done"
        /\ livePending = r
        /\ CodeOf(q) # CodeOf(r)
        /\ magicCode = Str(CodeOf(r))
        /\ currentAccessToken = TokenOf(r)

(* Submission t has ended, whatever its outcome: a mismatch, or a match    *)
(* whose onLoginSuccess returned or threw.                                 *)
Processed(t) ==
    IsSubmission(t) /\ turns[t].pc \in {"done", "threw"}

(* Submission t has been answered: the failure notice of a mismatch or the *)
(* success notice of a match has been handed to sendActivity.              *)
Consumed(t) ==
    IsSubmission(t) /\ turns[t].pc \in {"failure", "success", "done"}

C12_SpentState ==
    /\ \A t \in TurnIds : Consumed(t) => livePending # turns[t].compared
    /\ livePending = 0 => ~Truthy(sentCode)

C12_SpentStep ==
    TurnArrives /\ Arrived.auth = "no"
    => /\ (\E t \in TurnIds : Consumed(t)) /\ livePending = 0
          => /\ Arrived.submittedCode = Undefined
             /\ Arrived.login = <<>>
             /\ Arrived.pc \in {"notice", "card"}
       /\ \A t \in TurnIds :
              Consumed(t) => Arrived.compared # turns[t].compared

Providers == {"facebook", "activeDirectory", "github"}

(* The state parameter createAuthenticationCard gives each provider. *)
StateOfProvider ==
    [facebook |-> StrategyType.Facebook,
     activeDirectory |-> StrategyType.ActiveDirectory,
     github |-> StrategyType.Github]

EnabledProviders == {p \in Providers : Truthy(authenticationConfig[p])}

(* The Login Cards handed to sendActivity so far. *)
SentCards ==
    UNION {{turns[t].sent[i] : i \in {j \in 1..Len(turns[t].sent) :
                                         turns[t].sent[j].t = "card"}} :
           t \in TurnIds}

(* C13: whichever of the three providers are configured, a Login Card has  *)
(* exactly one openUrl action for each configured provider and none for    *)
(* the others, and the URL of each action carries its provider's           *)
(* identifier as state and its provider's client id; with no provider      *)
(* configured the card has no action and is sent all the same.             *)
C13_CardListsEnabledProviders ==
    \A card \in SentCards :
        LET buttons == card.buttons
            ActionsOf(p) ==
                {k \in 1..Len(buttons) : buttons[k].value.state = StateOfProvider[p]}
        IN  /\ Len(buttons) = Cardinality(EnabledProviders)
            /\ \A p \in Providers :
                   Cardinality(ActionsOf(p)) = IF p \in EnabledProviders THEN 1 ELSE 0
            /\ \A p \in EnabledProviders :
                   \A k \in ActionsOf(p) :
                       /\ buttons[k].type = "openUrl"
                       /\ buttons[k].value.client_id = authenticationConfig[p].clientId
                       /\ buttons[k].value.redirect_uri = callbackURL

(* C13 witness: a card with the three actions was sent under a             *)
(* configuration of three providers.                                       *)
C13_Witness ==
    /\ EnabledProviders = Providers
    /\ \E card \in SentCards : Len(card.buttons) = 3

(* A card with no action was sent under a configuration of no provider. *)
C13_EmptyCardSent ==
    /\ EnabledProviders = {}
    /\ \E card \in SentCards : card.buttons = <<>>

(* The step changes one of the three fields of the pending login. *)
PendingChanges ==
    \/ sentCode' # sentCode
    \/ magicCode' # magicCode
    \/ currentAccessToken' # currentAccessToken

(* The step is the reset made by a code submission: the mismatch branch on *)
(* arrival, or the match branch after onLoginSuccess returned.             *)
SubmissionResets ==
    /\ MismatchArrives \/ \E t \in 1..MaxEvents : LoginReturned(t)
    /\ PendingCleared(magicCode', currentAccessToken', sentCode')

(* C14: a pending login does not expire.  Once sentCode is true, no step   *)
(* makes it false and no step touches the magic code or the token except   *)
(* the reset of an unauthenticated message processed as a code submission  *)
(* and the then callback of another successful exchange, which leaves      *)
(* sentCode true; turns passed through and failed exchanges change         *)
(* nothing.                                                                *)
C14_PendingStaysUntilSubmission ==
    [][Truthy(sentCode)
       => /\ PendingChanges
             => \/ SubmissionResets
                \/ /\ \E r \in 1..MaxEvents : ExchangeResolved(r)
                   /\ sentCode' = sentCode
          /\ ~Truthy(sentCode') => SubmissionResets
          /\ (TurnArrives /\ (Arrived.type # "message" \/ Arrived.auth = "yes"))
             => ~PendingChanges /\ livePending' = livePending
          /\ (\E r \in 1..MaxEvents : ExchangeFailed(r))
             => ~PendingChanges /\ livePending' = livePending]_vars

(* C14 witness: a pending login is still live after the exchange of        *)
(* another callback failed and a turn was passed through.                  *)
C14_Witness ==
    \E q, r \in RequestIds, t \in TurnIds :
        /\ requests[q].pc = "done" /\ livePending = q
        /\ requests[r].pc = "failed"
        /\ PassedThrough(t) /\ turns[t].pc = "done"
        /\ sentCode = Bool(TRUE)
        /\ magicCode = requests[q].minted
        /\ currentAccessToken = requests[q].token

(* What a first-contact turn sends in all: the notice when one is          *)
(* configured, then the Login Card.                                        *)
FirstContactReplies ==
    IF Truthy(authenticationConfig.noUserFoundMessage)
    THEN <<authenticationConfig.noUserFoundMessage, createAuthenticationCard>>
    ELSE <<createAuthenticationCard>>

(* C15: a first-contact turn (unauthenticated message, sentCode not true)  *)
(* sends the notice if and only if one is configured, sends it before the  *)
(* Login Card, sends exactly one Login Card and nothing else, and makes no *)
(* onLoginSuccess call.                                                    *)
C15_FirstContactReplies ==
    \A t \in TurnIds :
        FirstContact(t)
        => /\ turns[t].pc \in {"notice", "card", "done"}
           /\ turns[t].pc = "notice"
              => /\ Truthy(authenticationConfig.noUserFoundMessage)
                 /\ turns[t].sent = <<authenticationConfig.noUserFoundMessage>>
           /\ turns[t].pc \in {"card", "done"}
              => turns[t].sent = FirstContactReplies
           /\ turns[t].login = <<>>
           /\ turns[t].compared = -1

(* C15 witness: a first-contact turn ended after the configured notice and *)
(* then the Login Card.                                                    *)
C15_Witness ==
    \E t \in TurnIds :
        /\ FirstContact(t) /\ turns[t].pc = "done"
        /\ Truthy(authenticationConfig.noUserFoundMessage)
        /\ turns[t].sent = <<Str("Please log in"), createAuthenticationCard>>
        /\ turns[t].login = <<>>

(* C16: whenever sentCode is true a pending authentication is live: the    *)
(* magic code is a non-empty string (eight hex digits) and the access      *)
(* token is defined.  So every message taken for a code submission is      *)
(* compared with a non-empty string, none ends in the TypeError of an      *)
(* undefined magic code, and a submission with empty text never matches.   *)
C16_SentCodeState ==
    /\ Truthy(sentCode)
       => /\ magicCode.t = "string"
          /\ magicCode.v # ""
          /\ Len(magicCode.v) = 8
          /\ currentAccessToken # Undefined
          /\ livePending \in RequestIds
    /\ \A t \in TurnIds :
           /\ turns[t].submittedCode # Undefined
              => /\ IsSubmission(t)
                 /\ CodeOf(turns[t].compared) # ""
                 /\ turns[t].pc = "threw" => turns[t].login # <<>>
           /\ turns[t].submittedCode = Str("")
              => /\ turns[t].login = <<>>
                 /\ turns[t].pc \in {"failure", "done"}
                 /\ turns[t].sent = <<FailureNotice>>

C16_SentCodeStep ==
    (TurnArrives /\ Arrived.submittedCode # Undefined)
    => /\ magicCode.t = "string" /\ magicCode.v # ""
       /\ currentAccessToken # Undefined
       /\ Arrived.pc \in {"login", "failure"}

C16_SentCodeImpliesPending == []C16_SentCodeState /\ [][C16_SentCodeStep]_vars

(* C16 witness: a submission with empty text was compared with a live      *)
(* magic code and answered with the failure notice.                        *)
C16_Witness ==
    \E t \in TurnIds :
        /\ turns[t].submittedCode = Str("")
        /\ IsSubmission(t)
        /\ turns[t].login = <<>>
        /\ turns[t].sent = <<FailureNotice>>
        /\ turns[t].pc = "done"

(* C17: the code and the token are never torn.  The two fields always     *)
(* hold the code and the token of one and the same callback, and the token *)
(* a matching submission hands to onLoginSuccess is the token obtained by  *)
(* the callback that minted the code its text was compared with, whatever  *)
(* callbacks and submissions ran in between.                               *)
C17_PairState ==
    /\ \A r \in RequestIds :
           livePending = r
           => magicCode = requests[r].minted /\ currentAccessToken = requests[r].token
    /\ \A t \in TurnIds :
           turns[t].login # <<>>
           => /\ Len(turns[t].login) = 1
              /\ IsSubmission(t)
              /\ TextEqualsCode(t)
              /\ turns[t].login[1] = TokenOf(turns[t].compared)
              /\ turns[t].login[1].grant = turns[t].compared

C17_PairStep ==
    (TurnArrives /\ Arrived.login # <<>>)
    => \E r \in RequestIds :
           /\ livePending = r
           /\ requests[r].pc = "done"
           /\ ToLowerCase(Arrived.submittedCode.v) = ToLowerCase(CodeOf(r))
           /\ Arrived.login = <<TokenOf(r)>>
           /\ \A q \in StoredBefore(r) : Arrived.login[1] # TokenOf(q)

C17_TokenOfMatchedCode == []C17_PairState /\ [][C17_PairStep]_vars

(* C17 witness: two callbacks stored a pending authentication each, with   *)
(* different codes, and a submission that matched the code of one was      *)
(* handed the token of that one.                                           *)
C17_Witness ==
    \E q, r \in RequestIds, t \in TurnIds :
        /\ q # r
        /\ requests[q].pc = "done" /\ requests[r].pc = "done"
        /\ CodeOf(q) # CodeOf(r)
        /\ turns[t].compared = r
        /\ TextEqualsCode(t)
        /\ turns[t].login = <<TokenOf(r)>>
        /\ TokenOf(r) # TokenOf(q)

(* The step is the failure of the onLoginSuccess call of turn t. *)
LoginThrew(t) ==
    t \in TurnIds /\ turns[t].pc = "login" /\ turns'[t].pc = "threw"

(* The onLoginSuccess call of turn t failed and the pending authentication *)
(* it matched is the live one.                                             *)
FailedLoginPending(t) ==
    turns[t].pc = "threw" /\ turns[t].login # <<>> /\ turns[t].compared = livePending

(* C18: when onLoginSuccess throws or rejects on a matching submission,    *)
(* the step leaves magicCode, the token and sentCode as they are and the   *)
(* turn sends nothing; while that pending authentication stays live, a     *)
(* later unauthenticated message is again taken for a submission, and one  *)
(* with the same code matches and invokes onLoginSuccess again with the    *)
(* same token.                                                             *)
C18_FailedState ==
    \A t \in TurnIds :
        turns[t].pc = "threw"
        => /\ turns[t].login # <<>>
           /\ turns[t].sent = <<>>
           /\ turns[t].cleared = -1
           /\ turns[t].nextCalls = 0

C18_FailedStep ==
    /\ \A t \in 1..MaxEvents :
           LoginThrew(t)
           => /\ UNCHANGED <<magicCode, currentAccessToken, sentCode, livePending>>
              /\ livePending = turns[t].compared
                 => /\ sentCode' = Bool(TRUE)
                    /\ magicCode' = Str(CodeOf(turns[t].compared))
                    /\ currentAccessToken' = turns[t].login[1]
              /\ turns'[t].sent = <<>>
    /\ (TurnArrives /\ Arrived.auth = "no")
       => \A t \in TurnIds :
              FailedLoginPending(t)
              => /\ Arrived.submittedCode # Undefined
                 /\ Arrived.compared = turns[t].compared
                 /\ ToLowerCase(Arrived.submittedCode.v)
                        = ToLowerCase(turns[t].submittedCode.v)
                    => Arrived.login = turns[t].login /\ Arrived.pc = "login"

C18_FailedLoginKeepsPending == []C18_FailedState /\ [][C18_FailedStep]_vars

(* C18 witness: onLoginSuccess failed on a matching submission, and a      *)
(* later submission of the same code matched the same pending              *)
(* authentication and was handed the same token.                           *)
C18_Witness ==
    \E t, u \in TurnIds :
        /\ t < u
        /\ turns[t].pc = "threw" /\ turns[t].login # <<>>
        /\ turns[t].sent = <<>>
        /\ turns[u].compared = turns[t].compared
        /\ turns[u].login = turns[t].login
        /\ turns[u].pc \in {"login", "success", "done"}

(* Conversation c was shown the Login Card by an earlier turn. *)
StartedLogin(c) ==
    \E t \in TurnIds : FirstContact(t) /\ turns[t].conversation = c

(* C19: sentCode and the pending authentication belong to the middleware,  *)
(* not to a conversation.  While sentCode is true an unauthenticated       *)
(* message of any conversation, one that was never shown the Login Card    *)
(* included, is compared with the one stored code: a matching text is      *)
(* handed the stored token, any other text discards the pending            *)
(* authentication and gets the failure notice.                             *)
C19_SharedState ==
    \A t \in TurnIds :
        (turns[t].auth = "no" /\ turns[t].found >= 1)
        => /\ turns[t].submittedCode # Undefined
           /\ turns[t].compared = turns[t].found
           /\ TextEqualsCode(t) => turns[t].login = <<TokenOf(turns[t].found)>>
           /\ ~TextEqualsCode(t)
              => /\ turns[t].login = <<>>
                 /\ turns[t].cleared = turns[t].found
                 /\ turns[t].sent = <<FailureNotice>>

C19_SharedStep ==
    \A c \in Conversations :
        (TurnArrives /\ Arrived.conversation = c /\ Arrived.auth = "no"
             /\ Truthy(sentCode))
        => /\ Arrived.submittedCode # Undefined
           /\ Arrived.compared = livePending
           /\ IF MagicCodeMatches(Arrived.submittedCode.v, magicCode.v)
              THEN /\ Arrived.login = <<currentAccessToken>>
                   /\ UNCHANGED <<magicCode, currentAccessToken, sentCode>>
              ELSE /\ Arrived.login = <<>>
                   /\ Arrived.sent = <<FailureNotice>>
                   /\ PendingCleared(magicCode', currentAccessToken', sentCode')

C19_PendingSharedBySessions == []C19_SharedState /\ [][C19_SharedStep]_vars

(* C19 witness: one conversation was shown the Login Card, a callback      *)
(* stored a pending authentication, and a message of another conversation, *)
(* which was never shown the card, matched the code and was handed the     *)
(* token.                                                                  *)
C19_Witness ==
    \E t, u \in TurnIds :
        /\ t < u
        /\ FirstContact(t) /\ CardSentLast(t)
        /\ turns[u].conversation # turns[t].conversation
        /\ ~StartedLogin(turns[u].conversation)
        /\ IsSubmission(u) /\ TextEqualsCode(u)
        /\ turns[u].login = <<TokenOf(turns[u].compared)>>

====
